---- MODULE Spec2Model ----
(***************************************************************************)
(* A model of mbox_to_telegram.py: the cursor file, the resumable mailbox  *)
(* iterator (a generator, resumed one next() at a time) and the run loop   *)
(* of main() in its three modes.                                           *)
(*                                                                         *)
(* A message is a record [key, MessageId]: key is its position in the      *)
(* mailbox (what tells two messages with the same identifier apart) and    *)
(* MessageId is email["Message-Id"], which is None when the header is      *)
(* missing.  The state file is a record [exists, content].                 *)
(***************************************************************************)
EXTENDS Naturals, Sequences, FiniteSets

VARIABLES
    mbox,                    \* the mailbox: a sequence of messages
    state_file,              \* the file named by --state
    pc,                      \* where main() is: for, send, save, report, then done
                             \* (the run is over); idle once mail has come since
    dry_run,                 \* conf.dry_run of the current (or last) run
    skip_to_end,             \* conf.end of the current (or last) run
    last_processed_message,  \* main's local of that name
    gen,                     \* the generator iterate_unread_messages returned
    yielded,                 \* what the generator has yielded (iterator runs)
    count,                   \* main's local of that name
    email,                   \* main's local of that name
    sent,                    \* the messages telegram_send.send has delivered
    out,                     \* the lines printed by the current (or last) run
    err,                     \* how the current (or last) run failed, if it did
    runs,                    \* number of runs started
    state0,                  \* the state file when the current run started
    sent0,                   \* Len(sent) when the current run started
    prev,                    \* the outcome of the run before the current one
    baseline,                \* length of the mailbox at the last completed
                             \* skip-to-end run whose cursor still stands, else 0
    send_args,               \* the date, subject and body given to send_message
    telegram,                \* the calls telegram_send.send has received
    saved                    \* the identifiers update_last_processed_message was
                             \* given, when the store is driven on its own

vars == <<mbox, state_file, pc, dry_run, skip_to_end, last_processed_message,
          gen, yielded, count, email, sent, out, err, runs, state0, sent0, prev,
          baseline, send_args, telegram, saved>>

(***************************************************************************)
(* Bounds.                                                                 *)
(***************************************************************************)
MaxMbox == 3
MaxRuns == 3
MaxSaves == 2    \* calls of update_last_processed_message on the store alone
MaxText == 2     \* length of the identifiers given to the store alone
Slack == 3       \* how far around the size limit the composed texts reach

(***************************************************************************)
(* Values.                                                                 *)
(***************************************************************************)
\* A str is a sequence of characters, each written as a string: "1" is the
\* digit, CR and LF the two line-ending characters, and NonAscii holds the
\* characters the ascii codec cannot encode.
CR == "\r"
LF == "\n"
NonAscii == {"U+00E9"}

\* Python's None: no str is equal to it.
None == <<"<None>">>

\* email["Message-Id"] of a header folded after the colon, in a mailbox whose
\* lines end with "\r\n": the fold is part of the value.
FoldedId == <<CR, LF, "3">>

\* The identifiers a message can carry; None is a message without the header.
MessageIds == {<<"1">>, <<"2">>, FoldedId, None}

\* What the state file can hold when the tool did not write it itself.
StoredIds == {<<"1">>, <<"2">>, <<>>}

\* The cursors the iterator is tried on: absent, present ones, unknown ones.
Cursors == {None, <<"1">>, <<"2">>, <<"9">>, <<>>}

\* The characters of the identifiers the store alone is tried on.
Chars == {"1", "2", CR, LF} \cup NonAscii

\* Every str of at most n characters.
RECURSIVE Texts(_)
Texts(n) ==
    IF n = 0 THEN {<<>>}
    ELSE LET shorter == Texts(n - 1)
         IN  shorter \cup
             {Append(t, c) : t \in {s \in shorter : Len(s) = n - 1}, c \in Chars}

NoEmail == [key |-> 0, MessageId |-> None]

AbsentFile == [exists |-> FALSE, content |-> <<>>]

Message(k, id) == [key |-> k, MessageId |-> id]

RECURSIVE Mailboxes(_)
Mailboxes(n) ==
    IF n = 0 THEN {<<>>}
    ELSE LET shorter == Mailboxes(n - 1)
         IN  shorter \cup
             {Append(m, Message(Len(m) + 1, id)) :
                  m \in {s \in shorter : Len(s) = n - 1}, id \in MessageIds}

(***************************************************************************)
(* The cursor store.                                                       *)
(***************************************************************************)
\* What f.read() makes of the characters of a file opened in text mode with
\* the default newline=None: "\r\n" and a lone "\r" both come back as "\n".
RECURSIVE universal_newlines(_)
universal_newlines(text) ==
    IF text = <<>> THEN <<>>
    ELSE IF Head(text) = CR
         THEN <<LF>> \o universal_newlines(
                           IF Len(text) >= 2 /\ text[2] = LF
                           THEN Tail(Tail(text)) ELSE Tail(text))
         ELSE <<Head(text)>> \o universal_newlines(Tail(text))

get_last_processed_message(f) ==
    IF f.exists THEN universal_newlines(f.content) ELSE None

\* open(state_file, "w") truncates the file before f.write runs.  f.write(None)
\* raises TypeError and f.write of a character the ascii codec cannot encode
\* raises UnicodeEncodeError: the file is then left empty.  Otherwise the
\* characters are written as they are ("\n" stays "\n" where os.linesep is).
update_last_processed_message(f, message_id) ==
    IF message_id = None \/ \E i \in 1..Len(message_id) : message_id[i] \in NonAscii
    THEN [file |-> [exists |-> TRUE, content |-> <<>>], raised |-> TRUE]
    ELSE [file |-> [exists |-> TRUE, content |-> message_id], raised |-> FALSE]

(***************************************************************************)
(* The formatter and splitter.  The texts it is given are long, so a text  *)
(* here is written as its runs: a sequence of records [ch, n], n >= 1      *)
(* repetitions of the character ch, no two neighbours with the same ch.    *)
(***************************************************************************)
MAX_MESSAGE_SIZE == 10000

\* a + b on texts.
Cat(a, b) ==
    IF a = <<>> THEN b
    ELSE IF b = <<>> THEN a
    ELSE IF a[Len(a)].ch = b[1].ch
         THEN SubSeq(a, 1, Len(a) - 1)
                  \o <<[ch |-> b[1].ch, n |-> a[Len(a)].n + b[1].n]>>
                  \o Tail(b)
         ELSE a \o b

\* The text of a string literal, from its characters.
RECURSIVE Str(_)
Str(chars) ==
    IF chars = <<>> THEN <<>>
    ELSE Cat(<<[ch |-> Head(chars), n |-> 1]>>, Str(Tail(chars)))

\* c * k
Rep(c, k) == IF k = 0 THEN <<>> ELSE <<[ch |-> c, n |-> k]>>

\* len(text)
RECURSIVE StrLen(_)
StrLen(text) ==
    IF text = <<>> THEN 0 ELSE Head(text).n + StrLen(Tail(text))

\* text[:k]
RECURSIVE Slice(_, _)
Slice(text, k) ==
    IF text = <<>> \/ k = 0 THEN <<>>
    ELSE IF Head(text).n <= k
         THEN <<Head(text)>> \o Slice(Tail(text), k - Head(text).n)
         ELSE <<[ch |-> Head(text).ch, n |-> k]>>

\* "\n".join(lines)
RECURSIVE Join(_)
Join(lines) ==
    IF lines = <<>> THEN <<>>
    ELSE IF Len(lines) = 1 THEN lines[1]
    ELSE Cat(Cat(Head(lines), Str(<<LF>>)), Join(Tail(lines)))

\* The bytes of one character in UTF-8: one for an ASCII character, two for
\* U+00E9.
Utf8(c) == IF c = "U+00E9" THEN <<"C3", "A9">> ELSE <<c>>

\* text.encode("utf-8"): runs of the byte groups of the characters.
encode_utf8(text) ==
    [i \in 1..Len(text) |-> [unit |-> Utf8(text[i].ch), n |-> text[i].n]]

\* The text a byte string decodes to.
decode_utf8(bytes) ==
    [i \in 1..Len(bytes) |->
        [ch |-> IF bytes[i].unit = <<"C3", "A9">> THEN "U+00E9" ELSE bytes[i].unit[1],
         n |-> bytes[i].n]]

\* len(bytes)
RECURSIVE BytesLen(_)
BytesLen(bytes) ==
    IF bytes = <<>> THEN 0
    ELSE Head(bytes).n * Len(Head(bytes).unit) + BytesLen(Tail(bytes))

Header == Str(<<"L", "o", "c", "a", "l", " ", "e", "m", "a", "i", "l", " ",
                "m", "e", "s", "s", "a", "g", "e">>)

Marker == Str(<<LF, ".", ".", ".", "m", "e", "s", "s", "a", "g", "e", " ",
                "t", "o", "o", " ", "l", "o", "n", "g", ".", ".", ".">>)

\* Lines 43-50: msg_text before the size test.
Compose(date, subject, body) == Join(<<Header, date, subject, <<>>, body>>)

\* msg_files = None
NoFiles == <<>>

\* Mutant: a text of exactly the limit is split too.
send_message_at_limit(date, subject, body) ==
    LET msg_text == Compose(date, subject, body)
    IN  IF StrLen(msg_text) >= MAX_MESSAGE_SIZE
        THEN [messages |-> <<Cat(Slice(msg_text, MAX_MESSAGE_SIZE), Marker)>>,
              pre |-> TRUE,
              files |-> <<[name |-> "message.txt", content |-> encode_utf8(msg_text)]>>]
        ELSE [messages |-> <<msg_text>>, pre |-> TRUE, files |-> NoFiles]

\* The keyword arguments send_message gives to telegram_send.send.
send_message(date, subject, body) ==
    LET msg_text == Compose(date, subject, body)
    IN  IF StrLen(msg_text) > MAX_MESSAGE_SIZE
        THEN [messages |-> <<Cat(Slice(msg_text, MAX_MESSAGE_SIZE), Marker)>>,
              pre |-> TRUE,
              files |-> <<[name |-> "message.txt", content |-> encode_utf8(msg_text)]>>]
        ELSE [messages |-> <<msg_text>>, pre |-> TRUE, files |-> NoFiles]

\* The dates, subjects and bodies send_message is tried on: the bodies are
\* short, or bring the composed text to within Slack of the limit.
Dates == {<<>>, Str(<<"d">>)}

Subjects == {<<>>, Str(<<"s">>), Rep("U+00E9", 2)}

BodyLens ==
    LET limit == MAX_MESSAGE_SIZE - StrLen(Compose(<<>>, <<>>, <<>>))
    IN  (0..Slack) \cup ((limit - Slack)..(limit + Slack))

Bodies == {Rep(c, k) : c \in {"x", "U+00E9", LF}, k \in BodyLens}

(***************************************************************************)
(* The resumable iterator.  gen.pos is the number of messages the for loop *)
(* of the generator has consumed.                                          *)
(***************************************************************************)
\* Mutant: the generator starts as if the cursor had been seen (full replay).
iterate_unread_messages_replay(last_read_id) ==
    [pos |-> 0, seen_last_message |-> TRUE, status |-> "suspended"]

\* Mutant: the generator looks for the cursor even when there is none.
iterate_unread_messages_unseen(last_read_id) ==
    [pos |-> 0, seen_last_message |-> FALSE, status |-> "suspended"]

iterate_unread_messages(last_read_id) ==
    [pos |-> 0, seen_last_message |-> (last_read_id = None), status |-> "suspended"]

\* Mutant: the message that matches the cursor is yielded too.
RECURSIVE resume_inclusive(_, _, _)
resume_inclusive(M, last_read_id, g) ==
    IF g.pos >= Len(M)
    THEN IF ~g.seen_last_message
         THEN [gen |-> [g EXCEPT !.status = "raised"], kind |-> "raise", email |-> NoEmail]
         ELSE [gen |-> [g EXCEPT !.status = "stopped"], kind |-> "stop", email |-> NoEmail]
    ELSE LET e == M[g.pos + 1]
             g1 == [g EXCEPT !.pos = g.pos + 1]
         IN  IF g.seen_last_message
             THEN [gen |-> g1, kind |-> "yield", email |-> e]
             ELSE IF e.MessageId = last_read_id
                  THEN [gen |-> [g1 EXCEPT !.seen_last_message = TRUE],
                        kind |-> "yield", email |-> e]
                  ELSE resume_inclusive(M, last_read_id, g1)

\* Mutant: an exhausted scan ends quietly whether or not the cursor was seen.
RECURSIVE resume_noraise(_, _, _)
resume_noraise(M, last_read_id, g) ==
    IF g.pos >= Len(M)
    THEN [gen |-> [g EXCEPT !.status = "stopped"], kind |-> "stop", email |-> NoEmail]
    ELSE LET e == M[g.pos + 1]
             g1 == [g EXCEPT !.pos = g.pos + 1]
         IN  IF g.seen_last_message
             THEN [gen |-> g1, kind |-> "yield", email |-> e]
             ELSE IF e.MessageId = last_read_id
                  THEN resume_noraise(M, last_read_id, [g1 EXCEPT !.seen_last_message = TRUE])
                  ELSE resume_noraise(M, last_read_id, g1)

\* One next() on the generator: it runs to its next yield, to the end of the
\* for loop (StopIteration) or to the raise.
RECURSIVE resume(_, _, _)
resume(M, last_read_id, g) ==
    IF g.pos >= Len(M)
    THEN IF ~g.seen_last_message
         THEN [gen |-> [g EXCEPT !.status = "raised"], kind |-> "raise", email |-> NoEmail]
         ELSE [gen |-> [g EXCEPT !.status = "stopped"], kind |-> "stop", email |-> NoEmail]
    ELSE LET e == M[g.pos + 1]
             g1 == [g EXCEPT !.pos = g.pos + 1]
         IN  IF g.seen_last_message
             THEN [gen |-> g1, kind |-> "yield", email |-> e]
             ELSE IF e.MessageId = last_read_id
                  THEN resume(M, last_read_id, [g1 EXCEPT !.seen_last_message = TRUE])
                  ELSE resume(M, last_read_id, g1)

(***************************************************************************)
(* Initial states.                                                         *)
(***************************************************************************)
\* send_message has not been called.
NoArgs == [date |-> <<>>, subject |-> <<>>, body |-> <<>>]

NoRun == [ran |-> FALSE, dry_run |-> FALSE, skip_to_end |-> FALSE,
          err |-> "none", email |-> NoEmail, forwarded |-> FALSE]

InitRun ==
    /\ dry_run = FALSE
    /\ skip_to_end = FALSE
    /\ last_processed_message = None
    /\ gen = iterate_unread_messages(None)
    /\ yielded = <<>>
    /\ count = 0
    /\ email = NoEmail
    /\ sent = <<>>
    /\ out = <<>>
    /\ err = "none"
    /\ runs = 0
    /\ sent0 = 0
    /\ prev = NoRun
    /\ baseline = 0
    /\ send_args = NoArgs
    /\ telegram = <<>>
    /\ saved = <<>>

\* No state file yet, an empty mailbox.
Init ==
    /\ mbox = <<>>
    /\ state_file = AbsentFile
    /\ state0 = AbsentFile
    /\ pc = "idle"
    /\ InitRun

\* The state file is whatever was left there: absent, or any stored string.
InitStored ==
    /\ mbox = <<>>
    /\ state_file \in {AbsentFile} \cup {[exists |-> TRUE, content |-> c] : c \in StoredIds}
    /\ state0 = state_file
    /\ pc = "idle"
    /\ InitRun

\* The iterator alone, on every mailbox and cursor of the bounds.
InitIter ==
    /\ mbox \in Mailboxes(MaxMbox)
    /\ last_processed_message \in Cursors
    /\ state_file = AbsentFile
    /\ state0 = AbsentFile
    /\ pc = "iterate"
    /\ dry_run = FALSE
    /\ skip_to_end = FALSE
    /\ gen = iterate_unread_messages(last_processed_message)
    /\ yielded = <<>>
    /\ count = 0
    /\ email = NoEmail
    /\ sent = <<>>
    /\ out = <<>>
    /\ err = "none"
    /\ runs = 0
    /\ sent0 = 0
    /\ prev = NoRun
    /\ baseline = 0
    /\ send_args = NoArgs
    /\ telegram = <<>>
    /\ saved = <<>>

(***************************************************************************)
(* The iterator driven to exhaustion, one next() per step.                 *)
(***************************************************************************)
Iterate ==
    /\ pc = "iterate"
    /\ gen.status = "suspended"
    /\ LET r == resume(mbox, last_processed_message, gen)
       IN  /\ gen' = r.gen
           /\ yielded' = IF r.kind = "yield" THEN Append(yielded, r.email) ELSE yielded
           /\ err' = IF r.kind = "raise" THEN "CursorNotFound" ELSE err
    /\ UNCHANGED <<mbox, state_file, pc, dry_run, skip_to_end, last_processed_message,
                   count, email, sent, out, runs, state0, sent0, prev,
                   baseline, send_args, telegram, saved>>

(***************************************************************************)
(* The environment: mail is appended between runs.                         *)
(***************************************************************************)
Deliver(id) ==
    /\ pc \in {"idle", "done"}
    /\ Len(mbox) < MaxMbox
    /\ mbox' = Append(mbox, Message(Len(mbox) + 1, id))
    /\ pc' = "idle"
    /\ UNCHANGED <<state_file, dry_run, skip_to_end, last_processed_message,
                   gen, yielded, count, email, sent, out, err, runs, state0, sent0, prev,
                   baseline, send_args, telegram, saved>>

(***************************************************************************)
(* main().                                                                 *)
(***************************************************************************)
\* Mutant: a dry run starts from no cursor, as a skip-to-end run does.
Start_dry_fresh(d, e) ==
    /\ pc \in {"idle", "done"}
    /\ runs < MaxRuns
    /\ runs' = runs + 1
    /\ prev' = [ran |-> runs > 0, dry_run |-> dry_run, skip_to_end |-> skip_to_end,
                err |-> err, email |-> email, forwarded |-> Len(sent) > sent0]
    /\ dry_run' = d
    /\ skip_to_end' = e
    /\ last_processed_message' =
           IF e \/ d THEN None ELSE get_last_processed_message(state_file)
    /\ gen' = iterate_unread_messages(last_processed_message')
    /\ count' = 0
    /\ email' = NoEmail
    /\ out' = <<>>
    /\ err' = "none"
    /\ state0' = state_file
    /\ sent0' = Len(sent)
    /\ pc' = "for"
    /\ UNCHANGED <<mbox, state_file, yielded, sent, baseline, send_args, telegram, saved>>

\* Mutant: the cursor is loaded from the state file in every mode.
Start_always_loads(d, e) ==
    /\ pc \in {"idle", "done"}
    /\ runs < MaxRuns
    /\ runs' = runs + 1
    /\ prev' = [ran |-> runs > 0, dry_run |-> dry_run, skip_to_end |-> skip_to_end,
                err |-> err, email |-> email, forwarded |-> Len(sent) > sent0]
    /\ dry_run' = d
    /\ skip_to_end' = e
    /\ last_processed_message' = get_last_processed_message(state_file)
    /\ gen' = iterate_unread_messages(last_processed_message')
    /\ count' = 0
    /\ email' = NoEmail
    /\ out' = <<>>
    /\ err' = "none"
    /\ state0' = state_file
    /\ sent0' = Len(sent)
    /\ pc' = "for"
    /\ UNCHANGED <<mbox, state_file, yielded, sent, baseline, send_args, telegram, saved>>

\* Lines 85-95: the flags, the cursor, count = 0, email = None.
Start(d, e) ==
    /\ pc \in {"idle", "done"}
    /\ runs < MaxRuns
    /\ runs' = runs + 1
    /\ prev' = [ran |-> runs > 0, dry_run |-> dry_run, skip_to_end |-> skip_to_end,
                err |-> err, email |-> email, forwarded |-> Len(sent) > sent0]
    /\ dry_run' = d
    /\ skip_to_end' = e
    /\ last_processed_message' =
           IF e THEN None ELSE get_last_processed_message(state_file)
    /\ gen' = iterate_unread_messages(last_processed_message')
    /\ count' = 0
    /\ email' = NoEmail
    /\ out' = <<>>
    /\ err' = "none"
    /\ state0' = state_file
    /\ sent0' = Len(sent)
    /\ pc' = "for"
    /\ UNCHANGED <<mbox, state_file, yielded, sent, baseline, send_args, telegram, saved>>

\* Mutant: the cursor is written as soon as the message is taken, before
\* the send.
ForYield_saves_first ==
    /\ pc = "for"
    /\ LET r == resume(mbox, last_processed_message, gen)
       IN  /\ r.kind = "yield"
           /\ gen' = r.gen
           /\ count' = count + 1
           /\ email' = r.email
           /\ state_file' =
                  IF dry_run \/ skip_to_end THEN state_file
                  ELSE update_last_processed_message(state_file, r.email.MessageId).file
    /\ pc' = IF dry_run \/ skip_to_end THEN "for" ELSE "send"
    /\ UNCHANGED <<mbox, dry_run, skip_to_end, last_processed_message,
                   yielded, sent, out, err, runs, state0, sent0, prev,
                   baseline, send_args, telegram, saved>>

\* Mutant: in the counting modes the loop counts the message but does not
\* keep it.
ForYield_count_only ==
    /\ pc = "for"
    /\ LET r == resume(mbox, last_processed_message, gen)
       IN  /\ r.kind = "yield"
           /\ gen' = r.gen
           /\ count' = count + 1
           /\ email' = IF dry_run \/ skip_to_end THEN email ELSE r.email
    /\ pc' = IF dry_run \/ skip_to_end THEN "for" ELSE "send"
    /\ UNCHANGED <<mbox, state_file, dry_run, skip_to_end, last_processed_message,
                   yielded, sent, out, err, runs, state0, sent0, prev,
                   baseline, send_args, telegram, saved>>

\* Line 96 when the generator yields; lines 99-100 in the counting modes.
ForYield ==
    /\ pc = "for"
    /\ LET r == resume(mbox, last_processed_message, gen)
       IN  /\ r.kind = "yield"
           /\ gen' = r.gen
           /\ count' = count + 1
           /\ email' = r.email
    /\ pc' = IF dry_run \/ skip_to_end THEN "for" ELSE "send"
    /\ UNCHANGED <<mbox, state_file, dry_run, skip_to_end, last_processed_message,
                   yielded, sent, out, err, runs, state0, sent0, prev,
                   baseline, send_args, telegram, saved>>

\* Line 96 when the generator is exhausted.
ForStop ==
    /\ pc = "for"
    /\ LET r == resume(mbox, last_processed_message, gen)
       IN  /\ r.kind = "stop"
           /\ gen' = r.gen
    /\ pc' = "report"
    /\ UNCHANGED <<mbox, state_file, dry_run, skip_to_end, last_processed_message,
                   yielded, count, email, sent, out, err, runs, state0, sent0, prev,
                   baseline, send_args, telegram, saved>>

\* Line 96 when the generator raises: the error leaves main.
ForRaise ==
    /\ pc = "for"
    /\ LET r == resume(mbox, last_processed_message, gen)
       IN  /\ r.kind = "raise"
           /\ gen' = r.gen
    /\ err' = "CursorNotFound"
    /\ pc' = "done"
    /\ UNCHANGED <<mbox, state_file, dry_run, skip_to_end, last_processed_message,
                   yielded, count, email, sent, out, runs, state0, sent0, prev,
                   baseline, send_args, telegram, saved>>

\* Line 102, the send delivering the message.
SendOk ==
    /\ pc = "send"
    /\ sent' = Append(sent, email)
    /\ pc' = "save"
    /\ UNCHANGED <<mbox, state_file, dry_run, skip_to_end, last_processed_message,
                   gen, yielded, count, email, out, err, runs, state0, sent0, prev,
                   baseline, send_args, telegram, saved>>

\* Mutant: the cursor is written although the send raised.
SendFail_saves ==
    /\ pc = "send"
    /\ err' = "SendError"
    /\ state_file' = update_last_processed_message(state_file, email.MessageId).file
    /\ pc' = "done"
    /\ UNCHANGED <<mbox, dry_run, skip_to_end, last_processed_message,
                   gen, yielded, count, email, sent, out, runs, state0, sent0, prev,
                   baseline, send_args, telegram, saved>>

\* Line 102, the send raising: the error leaves main.
SendFail ==
    /\ pc = "send"
    /\ err' = "SendError"
    /\ pc' = "done"
    /\ UNCHANGED <<mbox, state_file, dry_run, skip_to_end, last_processed_message,
                   gen, yielded, count, email, sent, out, runs, state0, sent0, prev,
                   baseline, send_args, telegram, saved>>

\* The process dying between line 102 and line 103.
Crash ==
    /\ pc = "save"
    /\ err' = "crash"
    /\ pc' = "done"
    /\ UNCHANGED <<mbox, state_file, dry_run, skip_to_end, last_processed_message,
                   gen, yielded, count, email, sent, out, runs, state0, sent0, prev,
                   baseline, send_args, telegram, saved>>

\* Lines 103-104: the cursor is written, then the break.
Save ==
    /\ pc = "save"
    /\ LET w == update_last_processed_message(state_file, email.MessageId)
       IN  /\ state_file' = w.file
           /\ err' = IF w.raised THEN "TypeError" ELSE err
           /\ pc' = IF w.raised THEN "done" ELSE "report"
    /\ baseline' = 0
    /\ UNCHANGED <<mbox, dry_run, skip_to_end, last_processed_message,
                   gen, yielded, count, email, sent, out, runs, state0, sent0, prev,
                   send_args, telegram, saved>>

\* Mutant: the skip-to-end branch is tested before the dry-run branch.
Report_skip_first ==
    /\ pc = "report"
    /\ pc' = "done"
    /\ IF skip_to_end
       THEN /\ out' = Append(out, <<"Skipped messages:", count>>)
            /\ IF email # NoEmail
               THEN LET w == update_last_processed_message(state_file, email.MessageId)
                    IN  /\ state_file' = w.file
                        /\ err' = IF w.raised THEN "TypeError" ELSE err
               ELSE UNCHANGED <<state_file, err>>
       ELSE IF dry_run
       THEN /\ out' = Append(out, <<"Pending messages:", count>>)
            /\ UNCHANGED <<state_file, err>>
       ELSE /\ out' = Append(out, <<"Messages processed:", count>>)
            /\ UNCHANGED <<state_file, err>>
    /\ baseline' = IF skip_to_end /\ ~dry_run /\ count > 0
                   THEN (IF err' = "none" THEN Len(mbox) ELSE 0)
                   ELSE baseline
    /\ UNCHANGED <<mbox, dry_run, skip_to_end, last_processed_message,
                   gen, yielded, count, email, sent, runs, state0, sent0, prev,
                   send_args, telegram, saved>>

\* Mutant: skip-to-end writes the cursor without testing that a message was
\* seen.
Report_unguarded ==
    /\ pc = "report"
    /\ pc' = "done"
    /\ IF dry_run
       THEN /\ out' = Append(out, <<"Pending messages:", count>>)
            /\ UNCHANGED <<state_file, err>>
       ELSE IF skip_to_end
       THEN /\ out' = Append(out, <<"Skipped messages:", count>>)
            /\ LET w == update_last_processed_message(state_file, email.MessageId)
               IN  /\ state_file' = w.file
                   /\ err' = IF w.raised THEN "TypeError" ELSE err
       ELSE /\ out' = Append(out, <<"Messages processed:", count>>)
            /\ UNCHANGED <<state_file, err>>
    /\ baseline' = IF skip_to_end /\ ~dry_run /\ count > 0
                   THEN (IF err' = "none" THEN Len(mbox) ELSE 0)
                   ELSE baseline
    /\ UNCHANGED <<mbox, dry_run, skip_to_end, last_processed_message,
                   gen, yielded, count, email, sent, runs, state0, sent0, prev,
                   send_args, telegram, saved>>

\* Lines 105-113: the line printed and, in skip-to-end mode, the cursor written.
Report ==
    /\ pc = "report"
    /\ pc' = "done"
    /\ IF dry_run
       THEN /\ out' = Append(out, <<"Pending messages:", count>>)
            /\ UNCHANGED <<state_file, err>>
       ELSE IF skip_to_end
       THEN /\ out' = Append(out, <<"Skipped messages:", count>>)
            /\ IF email # NoEmail
               THEN LET w == update_last_processed_message(state_file, email.MessageId)
                    IN  /\ state_file' = w.file
                        /\ err' = IF w.raised THEN "TypeError" ELSE err
               ELSE UNCHANGED <<state_file, err>>
       ELSE /\ out' = Append(out, <<"Messages processed:", count>>)
            /\ UNCHANGED <<state_file, err>>
    /\ baseline' = IF skip_to_end /\ ~dry_run /\ count > 0
                   THEN (IF err' = "none" THEN Len(mbox) ELSE 0)
                   ELSE baseline
    /\ UNCHANGED <<mbox, dry_run, skip_to_end, last_processed_message,
                   gen, yielded, count, email, sent, runs, state0, sent0, prev,
                   send_args, telegram, saved>>

(***************************************************************************)
(* Specifications.                                                         *)
(***************************************************************************)
Next ==
    \/ \E id \in MessageIds : Deliver(id)
    \/ \E d, e \in BOOLEAN : Start(d, e)
    \/ ForYield
    \/ ForStop
    \/ ForRaise
    \/ SendOk
    \/ SendFail
    \/ Crash
    \/ Save
    \/ Report

\* Runs in any mode, from no state file.
Spec == Init /\ [][Next]_vars

\* Runs in any mode, from any state file.
SpecStored == InitStored /\ [][Next]_vars

NextNormal ==
    \/ \E id \in MessageIds : Deliver(id)
    \/ Start(FALSE, FALSE)
    \/ ForYield
    \/ ForStop
    \/ ForRaise
    \/ SendOk
    \/ SendFail
    \/ Crash
    \/ Save
    \/ Report

\* Normal-mode runs only, from no state file.
SpecNormal == Init /\ [][NextNormal]_vars

NextNoFail ==
    \/ \E id \in MessageIds : Deliver(id)
    \/ Start(FALSE, FALSE)
    \/ ForYield
    \/ ForStop
    \/ ForRaise
    \/ SendOk
    \/ Save
    \/ Report

\* Normal-mode runs only, from no state file, whose sends all succeed and
\* that are never killed.
SpecNoFail == Init /\ [][NextNoFail]_vars

(***************************************************************************)
(* The cursor store on its own: saves of any identifier, loads in between. *)
(***************************************************************************)
InitStore ==
    /\ mbox = <<>>
    /\ state_file = AbsentFile
    /\ state0 = AbsentFile
    /\ pc = "store"
    /\ InitRun

\* update_last_processed_message(state_file, message_id)
StoreSave(message_id) ==
    /\ pc \in {"store", "loaded"}
    /\ Len(saved) < MaxSaves
    /\ LET w == update_last_processed_message(state_file, message_id)
       IN  /\ state_file' = w.file
           /\ err' = IF w.raised THEN "raised" ELSE "none"
    /\ saved' = Append(saved, message_id)
    /\ pc' = "store"
    /\ UNCHANGED <<mbox, dry_run, skip_to_end, last_processed_message, gen, yielded,
                   count, email, sent, out, runs, state0, sent0, prev, baseline,
                   send_args, telegram>>

\* last_processed_message = get_last_processed_message(state_file)
StoreLoad ==
    /\ pc = "store"
    /\ last_processed_message' = get_last_processed_message(state_file)
    /\ pc' = "loaded"
    /\ UNCHANGED <<mbox, state_file, dry_run, skip_to_end, gen, yielded, count, email,
                   sent, out, err, runs, state0, sent0, prev, baseline, send_args,
                   telegram, saved>>

NextStore ==
    \/ \E message_id \in Texts(MaxText) : StoreSave(message_id)
    \/ StoreLoad

SpecStore == InitStore /\ [][NextStore]_vars

(***************************************************************************)
(* send_message on its own: one call, on any date, subject and body.       *)
(***************************************************************************)
InitSend ==
    /\ mbox = <<>>
    /\ state_file = AbsentFile
    /\ state0 = AbsentFile
    /\ pc = "compose"
    /\ InitRun

\* send_message(date, subject, body), the send going through.
SendMessage(date, subject, body) ==
    /\ pc = "compose"
    /\ send_args' = [date |-> date, subject |-> subject, body |-> body]
    /\ telegram' = Append(telegram, send_message(date, subject, body))
    /\ pc' = "sent"
    /\ UNCHANGED <<mbox, state_file, dry_run, skip_to_end, last_processed_message,
                   gen, yielded, count, email, sent, out, err, runs, state0, sent0,
                   prev, baseline, saved>>

NextSend ==
    \E date \in Dates, subject \in Subjects, body \in Bodies :
        SendMessage(date, subject, body)

SpecSend == InitSend /\ [][NextSend]_vars

NextIter == Iterate

\* The iterator alone.
SpecIter == InitIter /\ [][NextIter]_vars

(***************************************************************************)
(* What the iterator is expected to yield, stated on positions.            *)
(***************************************************************************)
Matches(M, c) == {i \in 1..Len(M) : M[i].MessageId = c}

\* The cursor is a stored string and some message carries it.
Present(M, c) == c # None /\ Matches(M, c) # {}

\* The cursor is a stored string and no message carries it.
Unknown(M, c) == c # None /\ Matches(M, c) = {}

FirstMatch(M, c) == CHOOSE i \in Matches(M, c) : \A j \in Matches(M, c) : i <= j

\* The messages after the resume point: all of them without a cursor.
PendingAfter(M, c) ==
    IF c = None THEN M
    ELSE IF Matches(M, c) = {} THEN <<>>
    ELSE SubSeq(M, FirstMatch(M, c) + 1, Len(M))

IsPrefix(s, t) == Len(s) <= Len(t) /\ SubSeq(t, 1, Len(s)) = s

Exhausted == gen.status # "suspended"

(***************************************************************************)
(* C1: with a cursor that some message carries, the iterator yields        *)
(* exactly the messages after the first message carrying it, in mailbox    *)
(* order, never that message itself, and ends without error; a later       *)
(* message with the same identifier is yielded like any other.             *)
(***************************************************************************)
C1_YieldsAfterFirstMatch ==
    (pc = "iterate" /\ Present(mbox, last_processed_message)) =>
        LET k == FirstMatch(mbox, last_processed_message)
            expected == SubSeq(mbox, k + 1, Len(mbox))
        IN  /\ IsPrefix(yielded, expected)
            /\ \A i \in 1..Len(yielded) : yielded[i] # mbox[k]
            /\ Exhausted => /\ gen.status = "stopped"
                            /\ err = "none"
                            /\ yielded = expected

\* An exhausted iteration whose cursor is carried by two messages, the second
\* of which was yielded.
C1_Witness ==
    /\ pc = "iterate"
    /\ Present(mbox, last_processed_message)
    /\ Exhausted
    /\ Cardinality(Matches(mbox, last_processed_message)) >= 2
    /\ \E i \in 1..Len(yielded) : yielded[i].MessageId = last_processed_message
    /\ mbox[1].MessageId # last_processed_message

(***************************************************************************)
(* C2: with a cursor that no message carries (the empty mailbox included), *)
(* the iteration ends in CursorNotFound and yields nothing before that.    *)
(***************************************************************************)
C2_UnknownCursorRaises ==
    (pc = "iterate" /\ Unknown(mbox, last_processed_message)) =>
        /\ yielded = <<>>
        /\ Exhausted => /\ gen.status = "raised"
                        /\ err = "CursorNotFound"

\* A failed iteration over a mailbox of two or more messages.
C2_Witness ==
    /\ pc = "iterate"
    /\ Unknown(mbox, last_processed_message)
    /\ Len(mbox) >= 2
    /\ gen.status = "raised"
    /\ err = "CursorNotFound"

(***************************************************************************)
(* C3: without a cursor the iterator yields every message of the mailbox   *)
(* once, in mailbox order, and ends without error; for the empty mailbox   *)
(* it yields nothing and does not raise.                                   *)
(***************************************************************************)
C3_AbsentCursorYieldsAll ==
    (pc = "iterate" /\ last_processed_message = None) =>
        /\ IsPrefix(yielded, mbox)
        /\ Exhausted => /\ gen.status = "stopped"
                        /\ err = "none"
                        /\ yielded = mbox

\* A whole mailbox of two or more messages yielded, one without identifier.
C3_Witness ==
    /\ pc = "iterate"
    /\ last_processed_message = None
    /\ gen.status = "stopped"
    /\ Len(mbox) >= 2
    /\ yielded = mbox
    /\ \E i \in 1..Len(mbox) : mbox[i].MessageId = None

(***************************************************************************)
(* The runs of main(): what a run started from and what it did.            *)
(***************************************************************************)
\* The current (or last) run is a normal-mode run.
Normal == runs > 0 /\ ~dry_run /\ ~skip_to_end

\* The cursor in the state file when the run started.
Stored0 == get_last_processed_message(state0)

\* The messages this run has forwarded.
Forwarded == SubSeq(sent, sent0 + 1, Len(sent))

\* How many times a message has been forwarded, over all runs.
Times(m) == Cardinality({i \in 1..Len(sent) : sent[i] = m})

\* The run got its send through: it is past line 102, or over without a
\* send error.
SendWentThrough ==
    \/ pc \in {"save", "report"}
    \/ pc \in {"done", "idle"} /\ err # "SendError"

(***************************************************************************)
(* C4: a normal-mode run whose send does not fail and that is not killed   *)
(* forwards exactly the first pending message, writes its identifier as    *)
(* the new cursor and reports "Messages processed: 1"; with nothing        *)
(* pending it forwards nothing, leaves the state file alone and reports    *)
(* "Messages processed: 0".                                                *)
(***************************************************************************)
C4_NormalForwardsFirstPending ==
    (pc = "done" /\ Normal /\ err \notin {"SendError", "crash", "CursorNotFound"}) =>
        LET pending == PendingAfter(mbox, Stored0)
        IN  IF pending # <<>>
            THEN /\ Forwarded = <<pending[1]>>
                 /\ state_file = [exists |-> TRUE, content |-> pending[1].MessageId]
                 /\ out = << <<"Messages processed:", 1>> >>
            ELSE /\ Forwarded = <<>>
                 /\ state_file = state0
                 /\ out = << <<"Messages processed:", 0>> >>

(***************************************************************************)
(* C5: a normal-mode run whose send fails ends in an error with the state  *)
(* file as it was before the run, nothing forwarded and no line printed;   *)
(* the next normal run takes the same message to forward.                  *)
(***************************************************************************)
C5_SendFailureKeepsCursor ==
    /\ (pc = "done" /\ err = "SendError") =>
           /\ Normal
           /\ state_file = state0
           /\ Forwarded = <<>>
           /\ out = <<>>
    /\ (prev.err = "SendError" /\ Normal /\ pc # "for") =>
           /\ email = prev.email
           /\ count = 1
           /\ err # "CursorNotFound"

\* The run after a failed send has forwarded the message the failed run took.
C5_Witness ==
    /\ prev.err = "SendError"
    /\ Normal
    /\ pc = "done"
    /\ err = "none"
    /\ state0.exists
    /\ Forwarded = <<prev.email>>

C7_CursorValid ==
    state_file.exists => Matches(mbox, state_file.content) # {}

(***************************************************************************)
(* C8: a normal or dry run whose stored cursor is carried by no message    *)
(* never leaves the loop but by CursorNotFound: it forwards nothing,       *)
(* leaves the state file as it was and prints nothing; and only such a     *)
(* run ends in CursorNotFound.                                             *)
(***************************************************************************)
C8_CursorNotFoundNoEffects ==
    /\ (runs > 0 /\ ~skip_to_end /\ pc # "idle" /\ Unknown(mbox, Stored0)) =>
           /\ pc \in {"for", "done"}
           /\ pc = "done" => err = "CursorNotFound"
           /\ Forwarded = <<>>
           /\ state_file = state0
           /\ out = <<>>
    /\ (pc = "done" /\ err = "CursorNotFound") =>
           /\ ~skip_to_end
           /\ Unknown(mbox, Stored0)

\* A normal run over a non-empty mailbox failed on a stored identifier.
C8_Witness ==
    /\ pc = "done"
    /\ err = "CursorNotFound"
    /\ Normal
    /\ Len(mbox) >= 2
    /\ state0.content # <<>>
    /\ state_file = state0
    /\ out = <<>>

(***************************************************************************)
(* C9: a run with the dry-run flag set, whatever the other flag, forwards  *)
(* nothing and leaves the state file as it was, whether it completes or    *)
(* fails.                                                                  *)
(***************************************************************************)
C9_DryRunNoEffects ==
    (runs > 0 /\ dry_run) =>
        /\ Forwarded = <<>>
        /\ state_file = state0
        /\ pc \notin {"send", "save"}

\* A completed run with both flags set over a mailbox with messages and a
\* stored cursor.
C9_Witness ==
    /\ dry_run
    /\ skip_to_end
    /\ pc = "done"
    /\ err = "none"
    /\ count >= 2
    /\ state0.exists
    /\ out # <<>>

(***************************************************************************)
(* C10, as stated: every run with the dry-run flag set iterates from the   *)
(* stored cursor and reports the number of messages after its position.    *)
(***************************************************************************)
C10_DryRunCountsStored ==
    (runs > 0 /\ dry_run /\ pc # "idle") =>
        /\ last_processed_message = Stored0
        /\ (pc = "done" /\ err = "none") =>
               out = << <<"Pending messages:", Len(PendingAfter(mbox, Stored0))>> >>

(***************************************************************************)
(* C10, amended: every run with the dry-run flag set and the skip-to-end   *)
(* flag not set iterates from the stored cursor; it ends without error or  *)
(* in CursorNotFound, and without error it reports the number of messages  *)
(* after the stored cursor's position (the whole mailbox without cursor).  *)
(***************************************************************************)
C10_DryRunAloneCountsStored ==
    (runs > 0 /\ dry_run /\ ~skip_to_end /\ pc # "idle") =>
        /\ last_processed_message = Stored0
        /\ pc = "done" => err \in {"none", "CursorNotFound"}
        /\ (pc = "done" /\ err = "none") =>
               out = << <<"Pending messages:", Len(PendingAfter(mbox, Stored0))>> >>

\* A completed dry run that counted some but not all messages of the mailbox.
C10_Witness ==
    /\ dry_run
    /\ ~skip_to_end
    /\ pc = "done"
    /\ err = "none"
    /\ state0.exists
    /\ count >= 1
    /\ count < Len(mbox)
    /\ out = << <<"Pending messages:", count>> >>

(***************************************************************************)
(* C11, as stated: every run with the skip-to-end flag set that completes  *)
(* on a non-empty mailbox leaves the identifier of the last message as     *)
(* the stored cursor, whatever was stored before.                          *)
(***************************************************************************)
C11_SkipToEndSetsBaseline ==
    (pc = "done" /\ skip_to_end /\ err = "none" /\ Len(mbox) > 0) =>
        state_file = [exists |-> TRUE, content |-> mbox[Len(mbox)].MessageId]

(***************************************************************************)
(* C11, amended: every run with the skip-to-end flag set and the dry-run   *)
(* flag not set that completes on a non-empty mailbox leaves the           *)
(* identifier of the last message as the stored cursor, whatever was       *)
(* stored before.                                                          *)
(***************************************************************************)
C11_SkipToEndAloneSetsBaseline ==
    (pc = "done" /\ skip_to_end /\ ~dry_run /\ err = "none" /\ Len(mbox) > 0) =>
        state_file = [exists |-> TRUE, content |-> mbox[Len(mbox)].MessageId]

\* A completed skip-to-end run replaced a stored cursor that no message of
\* the mailbox carries.
C11_Witness ==
    /\ pc = "done"
    /\ skip_to_end
    /\ ~dry_run
    /\ err = "none"
    /\ Len(mbox) >= 2
    /\ Unknown(mbox, Stored0)
    /\ state_file # state0
    /\ state_file.content = mbox[Len(mbox)].MessageId

(***************************************************************************)
(* C12: a run with the skip-to-end flag set, with or without the dry-run   *)
(* flag, does not use the stored cursor: it never ends in CursorNotFound,  *)
(* it forwards nothing, and the one line it prints carries the number of   *)
(* messages of the mailbox.                                                *)
(***************************************************************************)
C12_SkipToEndIgnoresCursor ==
    (runs > 0 /\ skip_to_end /\ pc # "idle") =>
        /\ last_processed_message = None
        /\ err # "CursorNotFound"
        /\ Forwarded = <<>>
        /\ pc \in {"for", "report", "done"}
        /\ pc = "done" => /\ Len(out) = 1
                          /\ out[1][2] = Len(mbox)

\* A run with both flags set counted a whole mailbox although the stored
\* cursor matches none of its messages.
C12_Witness ==
    /\ pc = "done"
    /\ skip_to_end
    /\ dry_run
    /\ Unknown(mbox, Stored0)
    /\ Len(mbox) >= 2
    /\ out = << <<"Pending messages:", Len(mbox)>> >>

(***************************************************************************)
(* C16: a run that completes without error prints exactly one line,        *)
(* "Pending messages: n" in dry-run mode, "Skipped messages: n" in         *)
(* skip-to-end mode and "Messages processed: n" in normal mode, n being    *)
(* the number of messages the run counted; a run that ends in an error     *)
(* prints no line.                                                         *)
(***************************************************************************)
ModeLine ==
    IF dry_run THEN "Pending messages:"
    ELSE IF skip_to_end THEN "Skipped messages:"
    ELSE "Messages processed:"

C16_OneLinePerCompletedRun ==
    (pc = "done" /\ runs > 0) =>
        IF err = "none"
        THEN out = << <<ModeLine, count>> >>
        ELSE out = <<>>

(***************************************************************************)
(* C19: a skip-to-end run over an empty mailbox reports "Skipped           *)
(* messages: 0" and leaves the state file as it was, absent or stored.     *)
(***************************************************************************)
C19_SkipToEndEmptyMailbox ==
    (pc = "done" /\ skip_to_end /\ ~dry_run /\ Len(mbox) = 0) =>
        /\ err = "none"
        /\ out = << <<"Skipped messages:", 0>> >>
        /\ state_file = state0

\* A skip-to-end run over an empty mailbox with a cursor stored.
C19_Witness ==
    /\ pc = "done"
    /\ skip_to_end
    /\ ~dry_run
    /\ Len(mbox) = 0
    /\ state0.exists
    /\ state_file = state0
    /\ out = << <<"Skipped messages:", 0>> >>

(***************************************************************************)
(* Mailboxes whose messages carry pairwise distinct identifiers: every     *)
(* message has one, and no two messages have the same.                     *)
(***************************************************************************)
HasDistinctIds(M) ==
    /\ \A i \in 1..Len(M) : M[i].MessageId # None
    /\ \A i, j \in 1..Len(M) : i # j => M[i].MessageId # M[j].MessageId

\* Every message of the mailbox was forwarded before the current run began.
\* Mailboxes whose identifiers the cursor store returns as they were saved.
HasStableIds(M) ==
    \A i \in 1..Len(M) :
        /\ M[i].MessageId # None
        /\ get_last_processed_message(
               update_last_processed_message(AbsentFile, M[i].MessageId).file)
             = M[i].MessageId

AllForwardedBefore ==
    \A i \in 1..Len(mbox) : \E j \in 1..sent0 : sent[j] = mbox[i]

(***************************************************************************)
(* C13: once every message of the mailbox has been forwarded by earlier    *)
(* normal runs and none is appended, a further normal run forwards         *)
(* nothing, reports "Messages processed: 0" and leaves the state file as   *)
(* it found it (so do two such runs in a row).                             *)
(***************************************************************************)
C13_IdempotentWithoutNewMail ==
    (pc = "done" /\ Normal /\ AllForwardedBefore) =>
        /\ err = "none"
        /\ Forwarded = <<>>
        /\ out = << <<"Messages processed:", 0>> >>
        /\ state_file = state0

\* The same for mailboxes whose messages carry pairwise distinct identifiers
\* that the store returns as saved, where it holds.
IdempotentWithStableDistinctIds ==
    (HasDistinctIds(mbox) /\ HasStableIds(mbox)) => C13_IdempotentWithoutNewMail

(***************************************************************************)
(* C17: over a mailbox whose messages carry pairwise distinct identifiers, *)
(* from no stored cursor, normal runs whose sends all succeed forward the  *)
(* messages in mailbox order, each once: what has been forwarded is a      *)
(* prefix of the mailbox, a run with a message pending forwards the next   *)
(* one and leaves its identifier as the cursor, a run with none pending    *)
(* forwards nothing and reports "Messages processed: 0"; appended messages *)
(* come after all earlier ones.                                            *)
(***************************************************************************)
C17_InOrderExactlyOnce ==
    HasDistinctIds(mbox) =>
        /\ IsPrefix(sent, mbox)
        /\ (pc = "done" /\ runs > 0) =>
               /\ err = "none"
               /\ state_file = IF Len(sent) = 0 THEN AbsentFile
                               ELSE [exists |-> TRUE,
                                     content |-> mbox[Len(sent)].MessageId]
               /\ IF sent0 < Len(mbox)
                  THEN /\ Forwarded = <<mbox[sent0 + 1]>>
                       /\ out = << <<"Messages processed:", 1>> >>
                  ELSE /\ Forwarded = <<>>
                       /\ out = << <<"Messages processed:", 0>> >>
        /\ (pc = "done" /\ Len(sent) = runs /\ runs > 0) =>
               /\ email = mbox[runs]
               /\ state_file.content = mbox[runs].MessageId

\* The same for mailboxes whose identifiers the store returns as saved,
\* where it holds.
DrainWithStableIds ==
    HasStableIds(mbox) => C17_InOrderExactlyOnce

(***************************************************************************)
(* C18: after a completed skip-to-end run (dry-run flag not set) on a      *)
(* non-empty mailbox with pairwise distinct identifiers, as long as its    *)
(* cursor stands: the stored cursor is the identifier of the last message  *)
(* the mailbox had then; a dry run reports as pending exactly the number   *)
(* of messages appended since (0 when none were); a normal run forwards    *)
(* nothing when none were appended, and otherwise takes the first appended *)
(* message and forwards no other.                                          *)
(***************************************************************************)
C18_SkipToEndLeavesNothingPending ==
    (/\ baseline > 0
     /\ HasDistinctIds(mbox)
     /\ ~skip_to_end
     /\ pc \in {"send", "save", "report", "done"}) =>
        /\ baseline <= Len(mbox)
        /\ state0 = [exists |-> TRUE, content |-> mbox[baseline].MessageId]
        /\ IF dry_run
           THEN /\ Forwarded = <<>>
                /\ pc = "done" =>
                       /\ err = "none"
                       /\ out = << <<"Pending messages:", Len(mbox) - baseline>> >>
           ELSE IF Len(mbox) = baseline
                THEN /\ pc \in {"report", "done"}
                     /\ Forwarded = <<>>
                     /\ pc = "done" =>
                            /\ err = "none"
                            /\ out = << <<"Messages processed:", 0>> >>
                            /\ state_file = state0
                ELSE /\ pc \in {"send", "save", "done"}
                     /\ email = mbox[baseline + 1]
                     /\ Forwarded \in {<<>>, <<mbox[baseline + 1]>>}
                     /\ pc = "save" => Forwarded = <<mbox[baseline + 1]>>
                     /\ pc = "send" => Forwarded = <<>>
                     /\ pc = "done" => err \in {"SendError", "crash"}

\* The same for mailboxes whose identifiers the store returns as saved,
\* where it holds.
NothingPendingWithStableIds ==
    HasStableIds(mbox) => C18_SkipToEndLeavesNothingPending

(***************************************************************************)
(* C14: a load when nothing was ever saved returns None, without error;    *)
(* after any sequence of saves, a load returns exactly the identifier of   *)
(* the most recent save, for every identifier string (here: whenever that  *)
(* save returned normally).                                                *)
(***************************************************************************)
C14_StoreRoundTrip ==
    pc = "loaded" =>
        IF saved = <<>>
        THEN last_processed_message = None
        ELSE err = "none" => last_processed_message = saved[Len(saved)]

\* The same for identifiers without a carriage return, where it holds.
RoundTripWithoutCR ==
    (saved # <<>> /\ \A i \in 1..Len(saved[Len(saved)]) : saved[Len(saved)][i] # CR)
        => C14_StoreRoundTrip

\* The composed text of the call made, and the call telegram_send.send got.
T == Compose(send_args.date, send_args.subject, send_args.body)

Call == telegram[Len(telegram)]

(***************************************************************************)
(* C15: for every composed text T, send_message sends exactly one text     *)
(* payload; there is a file attachment if and only if T has more than      *)
(* 10,000 characters, and then exactly one, whose content is the whole of  *)
(* T, with the text payload the first 10,000 characters of T followed by   *)
(* the truncation marker line; when T has at most 10,000 characters,       *)
(* exactly 10,000 included, the text payload is T and nothing is attached. *)
(***************************************************************************)
C15_SplittingThreshold ==
    pc = "sent" =>
        /\ Len(telegram) = 1
        /\ Len(Call.messages) = 1
        /\ Call.files # NoFiles <=> StrLen(T) > MAX_MESSAGE_SIZE
        /\ IF StrLen(T) > MAX_MESSAGE_SIZE
           THEN /\ Len(Call.files) = 1
                /\ Call.files[1].name = "message.txt"
                /\ decode_utf8(Call.files[1].content) = T
                /\ StrLen(Call.messages[1]) = MAX_MESSAGE_SIZE + StrLen(Marker)
                /\ Slice(Call.messages[1], MAX_MESSAGE_SIZE) = Slice(T, MAX_MESSAGE_SIZE)
                /\ Call.messages[1] = Cat(Slice(T, MAX_MESSAGE_SIZE), Marker)
           ELSE /\ Call.messages[1] = T
                /\ Call.files = NoFiles

\* A text of exactly the limit went out whole, its bytes more than the limit.
C15_Witness ==
    /\ pc = "sent"
    /\ StrLen(T) = MAX_MESSAGE_SIZE
    /\ BytesLen(encode_utf8(T)) > MAX_MESSAGE_SIZE
    /\ Call.messages = <<T>>
    /\ Call.files = NoFiles

====
